---- MODULE Spec2Model ----
(***************************************************************************)
(* MINGROCpp::LineSearchBacktracking<Scalar, Index>::LineSearch            *)
(* (include/LBFGS/LineSearchBacktracking.cpp): one call of the             *)
(* backtracking line search, from function entry to return or throw.       *)
(*                                                                         *)
(* Numbers.  Every real quantity is an exact rational.  Step sizes,        *)
(* entries of x / mu / w are integers counted in units of 1/StepDen, so    *)
(* that "xp + step * drt" is xp + step * drt on the numerators when drt    *)
(* is a whole number, and halving a step is exact.  ftol and the width     *)
(* factors are pairs <<numerator, denominator>>.  A complex number is a    *)
(* pair <<re, im>>.  An energy is a record: finite value, NaN or Inf.      *)
(***************************************************************************)
EXTENDS Integers, Sequences, FiniteSets, TLC

\* ------------------------------------------------------------------------
\* Bounds of the exploration
\* ------------------------------------------------------------------------

\* largest param.maxLineSearch explored
MaxLS == 2

\* largest finite energy the external evaluator returns
MaxEnergy == 3

\* denominator of every step / field numerator: MaxLS halvings stay exact
StepDen == 2 ^ MaxLS

\* the real number 1 in field units (radius of the unit circle)
One == StepDen

\* ------------------------------------------------------------------------
\* Program constants and types
\* ------------------------------------------------------------------------

\* int numV = mingroc.m_V.rows()
numV == 2

Vertices == 1 .. numV

\* variant of dec: the increasing factor is the one applied
dec_AsInc == <<21, 10>>

\* const Scalar dec = Scalar(0.5)
dec == <<1, 2>>

\* const Scalar inc = Scalar(2.1)
inc == <<21, 10>>

LINE_SEARCH_TERMINATION_NONE == "NONE"

LINE_SEARCH_TERMINATION_DECREASE == "DECREASE"

LINE_SEARCH_TERMINATION_ARMIJO == "ARMIJO"

\* a value of the enumeration that is none of the three above
LINE_SEARCH_TERMINATION_OTHER == "OTHER"

TerminationModes ==
  { LINE_SEARCH_TERMINATION_NONE, LINE_SEARCH_TERMINATION_DECREASE,
    LINE_SEARCH_TERMINATION_ARMIJO, LINE_SEARCH_TERMINATION_OTHER }

\* Scalar energies: finite, NaN, +Inf
Fin(v) == [k |-> "fin", v |-> v]

NaN == [k |-> "nan", v |-> 0]

Inf == [k |-> "inf", v |-> 0]

\* (fx != fx)
IsNaN(e) == e.k = "nan"

\* std::isinf( (double) fx )
IsInf(e) == e.k = "inf"

\* ------------------------------------------------------------------------
\* Pure helpers
\* ------------------------------------------------------------------------

\* |z|^2 of a complex number, in squared field units
Abs2(z) == z[1] * z[1] + z[2] * z[2]

\* grad.dot(drt)
Dot(a, b) == LET S[i \in 0 .. Len(a)] ==
                   IF i = 0 THEN 0 ELSE S[i - 1] + a[i] * b[i]
             IN  S[Len(a)]

\* step *= width
Times(s, wd) == (s * wd[1]) \div wd[2]

\* xp + step * drt      (Vector)
AxpyReal(base, s, d) == [i \in DOMAIN base |-> base[i] + s * d[i]]

\* wp + step * dw       (CplxVector)
AxpyCplx(base, s, d) ==
  [i \in DOMAIN base |-> << base[i][1] + s * d[i][1], base[i][2] + s * d[i][2] >>]

\* mingroc.convertRealToComplex(x, mu): mu(i) = x(i) + I * x(i + numV)
convertRealToComplex(xx) == [i \in Vertices |-> << xx[i], xx[i + numV] >>]

\* projection of one complex number onto the unit circle, exp(I * arg(z));
\* arg(0) = 0.  Exact for the numbers on the two axes, the only ones the
\* explored inputs produce.
ProjectOne(z) ==
  CASE z[2] = 0 -> << (IF z[1] >= 0 THEN One ELSE -One), 0 >>
    [] z[1] = 0 -> << 0, (IF z[2] > 0 THEN One ELSE -One) >>

\* MINGROCpp::clipToUnitCircle( mingroc.m_bdyIDx, w )
clipToUnitCircle(bdy, ww) ==
  [i \in DOMAIN ww |-> IF i \in bdy THEN ProjectOne(ww[i]) ELSE ww[i]]

\* for(i ...) w(fixIDx(i)) = wp(fixIDx(i))
PinFixed(fix, ww, base) ==
  [i \in DOMAIN ww |-> IF i \in fix THEN base[i] ELSE ww[i]]

\* variant of TrialW: the boundary is clipped after the fixed points are pinned
TrialW_ClipAfterPin(base, s, d, bdy, fix) ==
  clipToUnitCircle(bdy, PinFixed(fix, AxpyCplx(base, s, d), base))

\* variant of TrialW: the boundary is never clipped
TrialW_NoClip(base, s, d, bdy, fix) ==
  PinFixed(fix, AxpyCplx(base, s, d), base)

\* the trial embedding of lines 98-105
TrialW(base, s, d, bdy, fix) ==
  PinFixed(fix, clipToUnitCircle(bdy, AxpyCplx(base, s, d)), base)

\* variant of BoundsHold: the embedding bound is not tested
BoundsHold_MuOnly(m, ww) ==
  \A i \in DOMAIN m : Abs2(m[i]) < One * One

\* (mu.array().abs() < 1.0).all() && (w.array().abs() <= 1.0).all()
BoundsHold(m, ww) ==
  /\ \A i \in DOMAIN m : Abs2(m[i]) < One * One
  /\ \A i \in DOMAIN ww : Abs2(ww[i]) <= One * One

\* fx > fx_init   (both finite when the code evaluates it)
Greater(a, b) == a.v > b.v

\* variant of ArmijoFails: the comparison is turned round
ArmijoFails_Reversed(e, e0, s, td, ftolDen) ==
  e.v * StepDen * ftolDen < e0.v * StepDen * ftolDen + s * td

\* fx > fx_init + step * test_decr, test_decr over the denominator ftol[2]
ArmijoFails(e, e0, s, td, ftolDen) ==
  e.v * StepDen * ftolDen > e0.v * StepDen * ftolDen + s * td

\* ------------------------------------------------------------------------
\* Thrown exceptions
\* ------------------------------------------------------------------------

NoError == "none"

\* std::invalid_argument("'step' must be positive")
ErrStepNotPositive == "invalid_argument: 'step' must be positive"

\* std::logic_error("The update direction increases the objective function value")
ErrNotDescent == "logic_error: update direction increases the objective"

\* std::runtime_error("... reached the maximum number of iterations")
ErrMaxIterations == "runtime_error: maximum number of iterations"

\* std::runtime_error("... step became smaller than the minimum allowed value")
ErrStepTooSmall == "runtime_error: step smaller than minimum"

\* std::runtime_error("... step became larger than the maximum allowed value")
ErrStepTooLarge == "runtime_error: step larger than maximum"

\* std::invalid_argument("Invalid line search termination procedure")
ErrInvalidTermination == "invalid_argument: invalid termination procedure"

\* ------------------------------------------------------------------------
\* Arguments explored
\* ------------------------------------------------------------------------

\* MINGROCParam: ftol, maxLineSearch, minStep, maxStep, lineSearchTermination,
\* checkSelfIntersections.  (minStep, maxStep) is one of: every explored
\* positive step in range; minStep = maxStep = 1; minStep > maxStep.
StepBoundChoices ==
  { << 1, 2 * StepDen >>, << StepDen, StepDen >>, << 2 * StepDen, StepDen \div 2 >> }

ParamChoices ==
  { [ ftol |-> << 1, 2 >>, maxLineSearch |-> m, minStep |-> b[1], maxStep |-> b[2],
      lineSearchTermination |-> t, checkSelfIntersections |-> c ] :
      m \in -1 .. MaxLS, b \in StepBoundChoices, t \in TerminationModes, c \in BOOLEAN }

\* initial step: -1, 1, 2
StepChoices == { -StepDen, StepDen, 2 * StepDen }

\* energy on entry
FxChoices == { Fin(2) }

\* values calculateEnergy can return
Energies == { Fin(v) : v \in 0 .. MaxEnergy } \cup { NaN, Inf }

\* x on entry: mu(1) = -1/StepDen, all other entries 0
XChoices == { [i \in 1 .. 2 * numV |-> IF i = 1 THEN -1 ELSE 0] }

\* search direction: first unit vector
DrtChoices == { [i \in 1 .. 2 * numV |-> IF i = 1 THEN 1 ELSE 0] }

\* gradient: g times the first unit vector, so grad.dot(drt) = g
GradChoices == { [i \in 1 .. 2 * numV |-> IF i = 1 THEN g ELSE 0] : g \in {-2, 0, 1} }

\* w on entry: vertex 1 at 1/2 on the real axis, the others at I
WChoices ==
  { [i \in Vertices |-> IF i = 1 THEN << One \div 2, 0 >> ELSE << 0, One >>] }

\* dw: vertex 1 moves along the real axis, the others along the imaginary one
DwChoices == { [i \in Vertices |-> IF i = 1 THEN << 1, 0 >> ELSE << 0, 1 >>] }

\* ------------------------------------------------------------------------
\* State
\* ------------------------------------------------------------------------

\* calculateEnergy has not been called yet
NoEnergyCall == [mu |-> << >>, w |-> << >>, e |-> NaN]

VARIABLES
  param, fixIDx, m_bdyIDx, drt, dw, grad,   \* inputs, read only
  energyRange,                              \* values calculateEnergy can return
  fx, x, w, step,                           \* in/out arguments
  xp, wp, fx_init, dg_init, test_decr,      \* copies taken on entry
  width, validStep, intersects, mu, iter,   \* locals
  pc, err,                                  \* position in the call, exception
  step_in,                                  \* value of step on entry
  nBuilt, nChecked, nEval,                  \* candidates built / checked / evaluated
  nFinite,                                  \* evaluations that returned a finite energy
  lastEnergyCall                            \* arguments and result of the last calculateEnergy

vars ==
  << param, fixIDx, m_bdyIDx, drt, dw, grad, energyRange, fx, x, w, step, xp, wp, fx_init,
     dg_init, test_decr, width, validStep, intersects, mu, iter, pc, err,
     step_in, nBuilt, nChecked, nEval, nFinite, lastEnergyCall >>

inputs == << param, fixIDx, m_bdyIDx, drt, dw, grad, energyRange, step_in >>

\* state on entry to LineSearch
Init ==
  /\ param \in ParamChoices
  /\ fixIDx \in SUBSET Vertices
  /\ m_bdyIDx \in SUBSET Vertices
  /\ drt \in DrtChoices
  /\ dw \in DwChoices
  /\ grad \in GradChoices
  /\ energyRange = Energies
  /\ fx \in FxChoices
  /\ x \in XChoices
  /\ w \in WChoices
  /\ step \in StepChoices
  /\ step_in = step
  /\ xp = << >>
  /\ wp = << >>
  /\ fx_init = NaN
  /\ dg_init = 0
  /\ test_decr = 0
  /\ width = << 0, 1 >>
  /\ validStep = FALSE
  /\ intersects = FALSE
  /\ mu = [i \in Vertices |-> << 0, 0 >>]
  /\ iter = 0
  /\ pc = "entry"
  /\ err = NoError
  /\ nBuilt = 0
  /\ nChecked = 0
  /\ nEval = 0
  /\ nFinite = 0
  /\ lastEnergyCall = NoEnergyCall

\* lines 47-61: the step check, the copies, the descent check
Precheck ==
  /\ pc = "entry"
  \* line 48-49: the exception object is constructed and discarded, not thrown
  /\ xp' = x
  /\ wp' = w
  /\ fx_init' = fx
  /\ dg_init' = Dot(grad, drt)
  /\ IF dg_init' > 0
       THEN /\ pc' = "threw"
            /\ err' = ErrNotDescent
            /\ UNCHANGED test_decr
       ELSE /\ test_decr' = param.ftol[1] * dg_init'
            /\ pc' = "loop"
            /\ UNCHANGED err
  /\ UNCHANGED << inputs, fx, x, w, step, width, validStep, intersects, mu, iter,
                  nBuilt, nChecked, nEval, nFinite, lastEnergyCall >>

\* variant of LoopCond: one more iteration is admitted
LoopCond_OneMore ==
  /\ pc = "loop"
  /\ pc' = IF iter <= param.maxLineSearch + 1 THEN "build" ELSE "returned"
  /\ UNCHANGED << inputs, fx, x, w, step, xp, wp, fx_init, dg_init, test_decr,
                  width, validStep, intersects, mu, iter, err, nBuilt, nChecked, nEval, nFinite, lastEnergyCall >>

\* variant of LoopCond: the loop condition is iter < param.maxLineSearch
LoopCond_Strict ==
  /\ pc = "loop"
  /\ pc' = IF iter < param.maxLineSearch THEN "build" ELSE "returned"
  /\ UNCHANGED << inputs, fx, x, w, step, xp, wp, fx_init, dg_init, test_decr,
                  width, validStep, intersects, mu, iter, err, nBuilt, nChecked, nEval, nFinite, lastEnergyCall >>

\* line 86: iter <= param.maxLineSearch
LoopCond ==
  /\ pc = "loop"
  /\ pc' = IF iter <= param.maxLineSearch THEN "build" ELSE "returned"
  /\ UNCHANGED << inputs, fx, x, w, step, xp, wp, fx_init, dg_init, test_decr,
                  width, validStep, intersects, mu, iter, err, nBuilt, nChecked, nEval, nFinite, lastEnergyCall >>

\* lines 90-105: build the trial x, mu, w
BuildCandidate ==
  /\ pc = "build"
  /\ x' = AxpyReal(xp, step, drt)
  /\ mu' = convertRealToComplex(x')
  /\ w' = TrialW(wp, step, dw, m_bdyIDx, fixIDx)
  /\ nBuilt' = nBuilt + 1
  /\ pc' = "check"
  /\ UNCHANGED << inputs, fx, step, xp, wp, fx_init, dg_init, test_decr, width,
                  validStep, intersects, iter, err, nChecked, nEval, nFinite, lastEnergyCall >>

\* lines 107-126: validStep; find_self_intersections answers either way
CheckFeasibility ==
  /\ pc = "check"
  /\ \E found \in (IF param.checkSelfIntersections THEN BOOLEAN ELSE {FALSE}) :
       /\ intersects' = found
       /\ validStep' = (BoundsHold(mu, w) /\ ~found)
  /\ nChecked' = nChecked + 1
  /\ pc' = IF validStep' THEN "energy" ELSE "invalid"
  /\ UNCHANGED << inputs, fx, x, w, step, xp, wp, fx_init, dg_init, test_decr,
                  width, mu, iter, err, nBuilt, nEval, nFinite, lastEnergyCall >>

\* variant of InvalidStepError: the budget test is iter > maxLineSearch
InvalidStepError_BudgetStrict(it, s) ==
  IF it > param.maxLineSearch THEN ErrMaxIterations
  ELSE IF s < param.minStep THEN ErrStepTooSmall
  ELSE IF s > param.maxStep THEN ErrStepTooLarge
  ELSE NoError

\* lines 132-146: which exception the checks of an invalid candidate raise
InvalidStepError(it, s) ==
  IF it >= param.maxLineSearch THEN ErrMaxIterations
  ELSE IF s < param.minStep THEN ErrStepTooSmall
  ELSE IF s > param.maxStep THEN ErrStepTooLarge
  ELSE NoError

\* variant of RejectInvalid: the step is shrunk before the checks are made
RejectInvalid_ShrinkFirst ==
  /\ pc = "invalid"
  /\ width' = dec
  /\ step' = Times(step, width')
  /\ IF InvalidStepError(iter, step') # NoError
       THEN /\ pc' = "threw"
            /\ err' = InvalidStepError(iter, step')
            /\ UNCHANGED iter
       ELSE /\ iter' = iter + 1
            /\ pc' = "loop"
            /\ UNCHANGED err
  /\ UNCHANGED << inputs, fx, x, w, xp, wp, fx_init, dg_init, test_decr,
                  validStep, intersects, mu, nBuilt, nChecked, nEval, nFinite, lastEnergyCall >>

\* lines 128-152: invalid candidate: checks, shrink, continue (iter++)
RejectInvalid ==
  /\ pc = "invalid"
  /\ width' = dec
  /\ IF InvalidStepError(iter, step) # NoError
       THEN /\ pc' = "threw"
            /\ err' = InvalidStepError(iter, step)
            /\ UNCHANGED << step, iter >>
       ELSE /\ step' = Times(step, width')
            /\ iter' = iter + 1
            /\ pc' = "loop"
            /\ UNCHANGED err
  /\ UNCHANGED << inputs, fx, x, w, xp, wp, fx_init, dg_init, test_decr,
                  validStep, intersects, mu, nBuilt, nChecked, nEval, nFinite, lastEnergyCall >>

\* lines 154-156: fx = mingroc.calculateEnergy(...)
EvaluateEnergy ==
  /\ pc = "energy"
  /\ fx' \in energyRange
  /\ lastEnergyCall' = [mu |-> mu, w |-> w, e |-> fx']
  /\ nEval' = nEval + 1
  /\ nFinite' = nFinite + (IF fx'.k = "fin" THEN 1 ELSE 0)
  /\ pc' = "policy"
  /\ UNCHANGED << inputs, x, w, step, xp, wp, fx_init, dg_init, test_decr, width,
                  validStep, intersects, mu, iter, err, nBuilt, nChecked >>

\* variant of Decision: ARMIJO breaks where DECREASE does
Decision_ArmijoAsDecrease(e, e0, s, td, mode, ftolDen) ==
  IF IsNaN(e) \/ IsInf(e) THEN "shrink"
  ELSE IF mode = LINE_SEARCH_TERMINATION_NONE THEN "break"
  ELSE IF Greater(e, e0) THEN "shrink"
  ELSE IF mode \in { LINE_SEARCH_TERMINATION_DECREASE, LINE_SEARCH_TERMINATION_ARMIJO }
    THEN "break"
  ELSE IF ArmijoFails(e, e0, s, td, ftolDen) THEN "shrink"
  ELSE "throw"

\* variant of Decision: the test fx > fx_init is missing
Decision_NoIncreaseTest(e, e0, s, td, mode, ftolDen) ==
  IF IsNaN(e) \/ IsInf(e) THEN "shrink"
  ELSE IF mode = LINE_SEARCH_TERMINATION_NONE THEN "break"
  ELSE IF mode = LINE_SEARCH_TERMINATION_DECREASE THEN "break"
  ELSE IF ArmijoFails(e, e0, s, td, ftolDen) THEN "shrink"
  ELSE IF mode = LINE_SEARCH_TERMINATION_ARMIJO THEN "break"
  ELSE "throw"

\* variant of Decision: mode NONE is looked at after the test fx > fx_init
Decision_NoneAfterIncrease(e, e0, s, td, mode, ftolDen) ==
  IF IsNaN(e) \/ IsInf(e) THEN "shrink"
  ELSE IF Greater(e, e0) THEN "shrink"
  ELSE IF mode = LINE_SEARCH_TERMINATION_NONE THEN "break"
  ELSE IF mode = LINE_SEARCH_TERMINATION_DECREASE THEN "break"
  ELSE IF ArmijoFails(e, e0, s, td, ftolDen) THEN "shrink"
  ELSE IF mode = LINE_SEARCH_TERMINATION_ARMIJO THEN "break"
  ELSE "throw"

\* variant of Decision: only Inf is rejected up front, NaN is not
Decision_NoNaNTest(e, e0, s, td, mode, ftolDen) ==
  IF IsInf(e) THEN "shrink"
  ELSE IF mode = LINE_SEARCH_TERMINATION_NONE THEN "break"
  ELSE IF Greater(e, e0) THEN "shrink"
  ELSE IF mode = LINE_SEARCH_TERMINATION_DECREASE THEN "break"
  ELSE IF ArmijoFails(e, e0, s, td, ftolDen) THEN "shrink"
  ELSE IF mode = LINE_SEARCH_TERMINATION_ARMIJO THEN "break"
  ELSE "throw"

\* variant of Decision: a mode that is not recognised is treated as ARMIJO
Decision_OtherAsArmijo(e, e0, s, td, mode, ftolDen) ==
  IF IsNaN(e) \/ IsInf(e) THEN "shrink"
  ELSE IF mode = LINE_SEARCH_TERMINATION_NONE THEN "break"
  ELSE IF Greater(e, e0) THEN "shrink"
  ELSE IF mode = LINE_SEARCH_TERMINATION_DECREASE THEN "break"
  ELSE IF ArmijoFails(e, e0, s, td, ftolDen) THEN "shrink"
  ELSE "break"

\* lines 160-196: "shrink", "break" or "throw"
Decision(e, e0, s, td, mode, ftolDen) ==
  IF IsNaN(e) \/ IsInf(e) THEN "shrink"
  ELSE IF mode = LINE_SEARCH_TERMINATION_NONE THEN "break"
  ELSE IF Greater(e, e0) THEN "shrink"
  ELSE IF mode = LINE_SEARCH_TERMINATION_DECREASE THEN "break"
  ELSE IF ArmijoFails(e, e0, s, td, ftolDen) THEN "shrink"
  ELSE IF mode = LINE_SEARCH_TERMINATION_ARMIJO THEN "break"
  ELSE "throw"

\* variant of TerminationPolicy: an accepted step is still multiplied by dec
TerminationPolicy_ShrinkOnBreak ==
  /\ pc = "policy"
  /\ LET d == Decision(fx, fx_init, step, test_decr,
                       param.lineSearchTermination, param.ftol[2])
     IN  CASE d = "break"  -> pc' = "returned" /\ step' = Times(step, dec)
                              /\ UNCHANGED << width, err >>
           [] d = "throw"  -> pc' = "threw" /\ err' = ErrInvalidTermination
                              /\ UNCHANGED << width, step >>
           [] d = "shrink" -> pc' = "rejected" /\ width' = dec
                              /\ UNCHANGED << err, step >>
  /\ UNCHANGED << inputs, fx, x, w, xp, wp, fx_init, dg_init, test_decr,
                  validStep, intersects, mu, iter, nBuilt, nChecked, nEval, nFinite, lastEnergyCall >>

\* lines 158-196: the termination conditions
TerminationPolicy ==
  /\ pc = "policy"
  /\ LET d == Decision(fx, fx_init, step, test_decr,
                       param.lineSearchTermination, param.ftol[2])
     IN  CASE d = "break"  -> pc' = "returned" /\ UNCHANGED << width, err >>
           [] d = "throw"  -> pc' = "threw" /\ err' = ErrInvalidTermination
                              /\ UNCHANGED width
           [] d = "shrink" -> pc' = "rejected" /\ width' = dec /\ UNCHANGED err
  /\ UNCHANGED << inputs, fx, x, w, step, xp, wp, fx_init, dg_init, test_decr,
                  validStep, intersects, mu, iter, nBuilt, nChecked, nEval, nFinite, lastEnergyCall >>

\* variant of RejectedStepError: the maxStep test comes before the minStep test
RejectedStepError_MaxBeforeMin(it, s) ==
  IF it >= param.maxLineSearch THEN ErrMaxIterations
  ELSE IF s > param.maxStep THEN ErrStepTooLarge
  ELSE IF s < param.minStep THEN ErrStepTooSmall
  ELSE NoError

\* lines 198-211: which exception the checks of a rejected energy raise
RejectedStepError(it, s) ==
  IF it >= param.maxLineSearch THEN ErrMaxIterations
  ELSE IF s < param.minStep THEN ErrStepTooSmall
  ELSE IF s > param.maxStep THEN ErrStepTooLarge
  ELSE NoError

\* lines 198-215: rejected energy: checks, shrink, iter++
RejectEnergy ==
  /\ pc = "rejected"
  /\ IF RejectedStepError(iter, step) # NoError
       THEN /\ pc' = "threw"
            /\ err' = RejectedStepError(iter, step)
            /\ UNCHANGED << step, iter >>
       ELSE /\ step' = Times(step, width)
            /\ iter' = iter + 1
            /\ pc' = "loop"
            /\ UNCHANGED err
  /\ UNCHANGED << inputs, fx, x, w, xp, wp, fx_init, dg_init, test_decr, width,
                  validStep, intersects, mu, nBuilt, nChecked, nEval, nFinite, lastEnergyCall >>

Next ==
  \/ Precheck
  \/ LoopCond
  \/ BuildCandidate
  \/ CheckFeasibility
  \/ RejectInvalid
  \/ EvaluateEnergy
  \/ TerminationPolicy
  \/ RejectEnergy

Spec == Init /\ [][Next]_vars

\* the call is sequential code: whatever step is next is eventually taken
FairSpec == Spec /\ WF_vars(Next)

\* energies returned in the Armijo scenario: below, at and above fx_init = 10
ArmijoScenarioEnergies == { Fin(9), Fin(10), Fin(11), NaN, Inf }

\* entry state of the Armijo scenario: mode ARMIJO, ftol = 1e-4, dg_init = -2,
\* fx_init = 10, step = 1; everything else as in Init
InitArmijoScenario ==
  /\ param \in { [ ftol |-> << 1, 10000 >>, maxLineSearch |-> m, minStep |-> b[1],
                   maxStep |-> b[2],
                   lineSearchTermination |-> LINE_SEARCH_TERMINATION_ARMIJO,
                   checkSelfIntersections |-> c ] :
                   m \in 0 .. MaxLS, b \in StepBoundChoices, c \in BOOLEAN }
  /\ fixIDx \in SUBSET Vertices
  /\ m_bdyIDx \in SUBSET Vertices
  /\ drt \in DrtChoices
  /\ dw \in DwChoices
  /\ grad \in { g \in GradChoices : Dot(g, drt) = -2 }
  /\ energyRange = ArmijoScenarioEnergies
  /\ fx = Fin(10)
  /\ x \in XChoices
  /\ w \in WChoices
  /\ step = StepDen
  /\ step_in = step
  /\ xp = << >>
  /\ wp = << >>
  /\ fx_init = NaN
  /\ dg_init = 0
  /\ test_decr = 0
  /\ width = << 0, 1 >>
  /\ validStep = FALSE
  /\ intersects = FALSE
  /\ mu = [i \in Vertices |-> << 0, 0 >>]
  /\ iter = 0
  /\ pc = "entry"
  /\ err = NoError
  /\ nBuilt = 0
  /\ nChecked = 0
  /\ nEval = 0
  /\ nFinite = 0
  /\ lastEnergyCall = NoEnergyCall

SpecArmijoScenario == InitArmijoScenario /\ [][Next]_vars

\* ------------------------------------------------------------------------
\* Vocabulary of the properties
\* ------------------------------------------------------------------------

\* a candidate has been built and is being, or has been, feasibility-checked
\* or energy-evaluated
TrialUnderEvaluation == pc \in { "check", "energy", "policy" }

StepWithinBounds == param.minStep <= step /\ step <= param.maxStep

\* a <= b on energies; false when either is NaN or Inf
Leq(a, b) == a.k = "fin" /\ b.k = "fin" /\ a.v <= b.v

\* fx <= fx_init + step * ftol * dg_init
SufficientDecrease ==
  /\ fx.k = "fin"
  /\ fx_init.k = "fin"
  /\ fx.v * StepDen * param.ftol[2]
       <= fx_init.v * StepDen * param.ftol[2] + step * param.ftol[1] * dg_init

\* every |mu| < 1, every |w| <= 1, and no self-intersection when checked
CandidateFeasible ==
  /\ \A i \in Vertices : Abs2(mu[i]) < One * One
  /\ \A i \in Vertices : Abs2(w[i]) <= One * One
  /\ param.checkSelfIntersections => ~intersects

\* ------------------------------------------------------------------------
\* Properties
\* ------------------------------------------------------------------------

\* C1: every trial candidate that is built and evaluated uses a step size
\* with minStep <= step <= maxStep, and a call that returns after a trial
\* returns such a step.  Stated for calls entered with a positive step, so
\* that it does not rest on what a negative step does.
C1_EvaluatedStepWithinBounds ==
  (step_in > 0 /\ (TrialUnderEvaluation \/ (pc = "returned" /\ nBuilt > 0)))
    => StepWithinBounds

\* C2: a call entered with a negative step raises the precondition error
\* "'step' must be positive" before any candidate is built, checked or
\* evaluated.
C2_NegativeStepRaises ==
  (step_in < 0 /\ pc # "entry")
    => (pc = "threw" /\ err = ErrStepNotPositive
        /\ nBuilt = 0 /\ nChecked = 0 /\ nEval = 0)

\* C3: a call whose initial directional derivative grad.drt is >= 0 (zero
\* included) raises the descent precondition error before any candidate is
\* built.  Stated for calls entered with a positive step.
C3_NonNegativeDerivativeRaises ==
  (step_in > 0 /\ pc # "entry" /\ Dot(grad, drt) >= 0)
    => (pc = "threw" /\ err = ErrNotDescent /\ nBuilt = 0)

C5_DecreaseNeverIncreases ==
  (param.lineSearchTermination = LINE_SEARCH_TERMINATION_DECREASE /\ pc = "returned")
    => Leq(fx, fx_init)

\* C5 witness: DECREASE accepted a trial after an earlier energy was rejected.
C5_Witness ==
  /\ param.lineSearchTermination = LINE_SEARCH_TERMINATION_DECREASE
  /\ pc = "returned"
  /\ nEval >= 2
  /\ nFinite >= 2

\* C6: in mode NONE with a negative initial directional derivative, the first
\* trial that is feasible and has a finite energy is the accepted one: at most
\* one such trial ever exists in a call, once it exists the call can only
\* return, and a return after a trial is the return of such a trial.
C6_NoneAcceptsFirstFiniteFeasible ==
  (param.lineSearchTermination = LINE_SEARCH_TERMINATION_NONE
     /\ pc # "entry" /\ dg_init < 0)
    => /\ nFinite <= 1
       /\ nFinite = 1 => (pc \in { "policy", "returned" } /\ validStep /\ fx.k = "fin")
       /\ (pc = "returned" /\ nBuilt > 0) => nFinite = 1

\* C6 witness: NONE returned a trial whose energy is larger than fx_init,
\* after an earlier trial was rejected.
C6_Witness ==
  /\ param.lineSearchTermination = LINE_SEARCH_TERMINATION_NONE
  /\ dg_init < 0
  /\ pc = "returned"
  /\ nBuilt >= 2
  /\ fx.k = "fin"
  /\ Greater(fx, fx_init)

\* C7: in every trial built, every fixed index keeps its pre-search embedding
\* value, boundary indices included.
C7_FixedPointsPinned ==
  nBuilt > 0 => \A i \in fixIDx : w[i] = wp[i]

\* C7 witness: a second or later trial in which an index that is both fixed
\* and on the boundary would have moved without the pinning.
C7_Witness ==
  /\ pc = "check"
  /\ nBuilt >= 2
  /\ \E i \in fixIDx \cap m_bdyIDx :
       clipToUnitCircle(m_bdyIDx, AxpyCplx(wp, step, dw))[i] # wp[i]

\* C8 as stated: when feasibility is checked, every boundary index has
\* magnitude exactly 1, for any fixed set and boundary set.  Stated for calls
\* entered with a positive step.
C8_BoundaryOnCircle ==
  (step_in > 0 /\ pc = "check") => \A i \in m_bdyIDx : Abs2(w[i]) = One * One

\* C8 amended: when feasibility is checked, every boundary index that is not
\* fixed has magnitude exactly 1, and a boundary index that is fixed holds its
\* pre-search value, whatever its magnitude.
C8_UnpinnedBoundaryOnCircle ==
  pc = "check"
    => \A i \in m_bdyIDx :
         IF i \in fixIDx THEN w[i] = wp[i] ELSE Abs2(w[i]) = One * One

\* C8 witness: a trial in which the projection moved an unpinned boundary
\* index onto the circle while a pinned boundary index stays off it.
C8_Witness ==
  /\ pc = "check"
  /\ \E i \in m_bdyIDx \ fixIDx : Abs2(AxpyCplx(wp, step, dw)[i]) # One * One
  /\ \E j \in m_bdyIDx \cap fixIDx : Abs2(w[j]) # One * One

\* C9: across one call the step changes only between one trial and the next,
\* each new trial step is exactly half the previous one, and the step never
\* increases.
C9_StepOnlyHalves ==
  [][ IF pc \in { "invalid", "rejected" } /\ pc' = "loop"
        THEN 2 * step' = step /\ step' <= step
        ELSE step' = step ]_vars

\* C9 witness: a third trial, built with a quarter of the initial step.
C9_Witness ==
  /\ pc = "check"
  /\ nBuilt = 3
  /\ step_in > 0
  /\ 4 * step = step_in

\* C10: the energy evaluator runs only on a feasible candidate; an infeasible
\* candidate is rejected without an energy evaluation in its iteration, and
\* unless a fatal check fires its step is halved before the next trial.
C10_EnergyOnlyWhenFeasible ==
  /\ [](pc \in { "energy", "policy" } => CandidateFeasible)
  /\ [](pc = "invalid" => ~CandidateFeasible)
  /\ [][ nEval' # nEval => (pc = "energy" /\ CandidateFeasible) ]_vars
  /\ [][ pc = "invalid"
           => /\ nEval' = nEval
              /\ \/ pc' = "threw" /\ step' = step
                 \/ pc' = "loop" /\ 2 * step' = step /\ iter' = iter + 1 ]_vars
  /\ [][ (pc = "loop" /\ pc' = "build") => nBuilt = iter ]_vars

\* C10 witness: an infeasible first candidate was rejected with no energy
\* evaluation and the step was halved for the next trial.
C10_Witness ==
  /\ pc = "build"
  /\ iter = 1
  /\ nEval = 0
  /\ ~validStep
  /\ 2 * step = step_in

\* the call has returned or thrown
Finished == pc \in { "returned", "threw" }

\* C11: every call ends, by a return or by an exception, and never builds
\* more than maxLineSearch + 1 candidates, whatever the feasibility results
\* and the energies are.
C11_TerminatesWithinBudget ==
  /\ [](nBuilt <= param.maxLineSearch + 1)
  /\ <>Finished

\* C11 witness: a call that ended after building exactly maxLineSearch + 1
\* candidates, the largest budget explored.
C11_Witness ==
  /\ Finished
  /\ param.maxLineSearch = MaxLS
  /\ nBuilt = MaxLS + 1

\* the trial of the current iteration has been rejected, as infeasible or by
\* the termination conditions, and the checks that follow are about to run
TrialRejected == pc \in { "invalid", "rejected" }

\* C12: when the trial at iteration index maxLineSearch is rejected, either
\* way, the call throws the iteration-budget error, and after a throw nothing
\* more happens: no further candidate is built.
C12_LastTrialRejectedIsBudgetError ==
  /\ [][ (TrialRejected /\ iter = param.maxLineSearch)
           => (pc' = "threw" /\ err' = ErrMaxIterations
               /\ nBuilt' = nBuilt /\ step' = step) ]_vars
  /\ [][ pc # "threw" ]_vars
  /\ [](err = ErrMaxIterations => (pc = "threw" /\ nBuilt = param.maxLineSearch + 1))

\* C12 witness: maxLineSearch = 0, the very first candidate was infeasible,
\* and the call threw the budget error after that single candidate.
C12_Witness ==
  /\ param.maxLineSearch = 0
  /\ pc = "threw"
  /\ err = ErrMaxIterations
  /\ ~validStep
  /\ nBuilt = 1
  /\ nEval = 0

\* mode ARMIJO, ftol = 1e-4, dg_init = -2.0, fx_init = 10.0, initial step 1.0,
\* and the first candidate was feasible with energy 9.0
ArmijoScenarioFirstEnergyNine ==
  /\ param.lineSearchTermination = LINE_SEARCH_TERMINATION_ARMIJO
  /\ param.ftol = << 1, 10000 >>
  /\ dg_init = -2
  /\ fx_init = Fin(10)
  /\ step_in = StepDen
  /\ nBuilt = 1
  /\ nEval = 1
  /\ fx = Fin(9)

\* C13 as stated: in the scenario the first trial, of energy 9.0, fails the
\* Armijo test and is rejected, so that the step shrinks and a second trial
\* follows: the call is never found returned with that first trial.
C13_FirstTrialRejected ==
  ArmijoScenarioFirstEnergyNine => pc \in { "policy", "rejected" }

\* C13 amended: in the scenario the first trial, of energy 9.0, meets the
\* Armijo test (9.0 <= 9.9998) and is accepted: the call returns with step 1.0
\* and fx = 9.0, and no second trial is built.
C13_FirstTrialAccepted ==
  ArmijoScenarioFirstEnergyNine
    => /\ pc \in { "policy", "returned" }
       /\ step = StepDen
       /\ SufficientDecrease

\* C13 witness: the scenario's call has returned with the first trial.
C13_Witness ==
  /\ ArmijoScenarioFirstEnergyNine
  /\ pc = "returned"
  /\ step = StepDen
  /\ iter = 0

\* x, mu and w are the candidate of the current step: x = xp + step * drt,
\* w = wp + step * dw, projected on the boundary, then pinned
HoldsCandidateOfStep ==
  /\ x = [i \in DOMAIN xp |-> xp[i] + step * drt[i]]
  /\ mu = [i \in Vertices |-> << x[i], x[i + numV] >>]
  /\ w = [i \in Vertices |->
            IF i \in fixIDx THEN wp[i]
            ELSE IF i \in m_bdyIDx
              THEN ProjectOne(<< wp[i][1] + step * dw[i][1], wp[i][2] + step * dw[i][2] >>)
              ELSE << wp[i][1] + step * dw[i][1], wp[i][2] + step * dw[i][2] >>]

\* x, w, fx and step describe one accepted trial
DescribesAcceptedTrial ==
  /\ HoldsCandidateOfStep
  /\ validStep
  /\ CandidateFeasible
  /\ nEval >= 1
  /\ lastEnergyCall = [mu |-> mu, w |-> w, e |-> fx]

BudgetOrBoundError ==
  err \in { ErrMaxIterations, ErrStepTooSmall, ErrStepTooLarge }

\* C15: in every mode a NaN or infinite energy is a rejection: it is never
\* accepted and never raises an error by itself, the rejection either halves
\* the step or raises one of the budget/bound errors, and a returned fx is
\* finite.
C15_NonFiniteEnergyIsRejected ==
  /\ [][ (pc = "policy" /\ fx.k # "fin")
           => (pc' = "rejected" /\ err' = NoError /\ step' = step) ]_vars
  /\ [][ (pc = "rejected" /\ fx.k # "fin")
           => \/ pc' = "threw" /\ BudgetOrBoundError' /\ step' = step
              \/ pc' = "loop" /\ 2 * step' = step /\ iter' = iter + 1 ]_vars
  /\ [](pc = "returned" => fx.k = "fin")

\* C15 witness: a NaN or infinite energy in a mode that is none of NONE,
\* DECREASE, ARMIJO was rejected and the step halved for the next trial.
C15_Witness ==
  /\ param.lineSearchTermination = LINE_SEARCH_TERMINATION_OTHER
  /\ pc = "build"
  /\ iter = 1
  /\ nEval = 1
  /\ fx.k # "fin"
  /\ 2 * step = step_in

\* the configured mode is none of NONE, DECREASE, ARMIJO
UnrecognisedMode ==
  param.lineSearchTermination \notin
    { LINE_SEARCH_TERMINATION_NONE, LINE_SEARCH_TERMINATION_DECREASE,
      LINE_SEARCH_TERMINATION_ARMIJO }

\* with an unrecognised mode, the rows of the decision table in order: an
\* evaluated trial that is finite, not above fx_init and within the Armijo
\* bound raises the configuration error, any other one is rejected
UnrecognisedModeRows ==
  [][ (UnrecognisedMode /\ pc = "policy")
        => IF fx.k = "fin" /\ fx.v <= fx_init.v /\ SufficientDecrease
             THEN pc' = "threw" /\ err' = ErrInvalidTermination
             ELSE pc' = "rejected" /\ err' = NoError ]_vars

ThrewInsideLoop ==
  /\ pc = "threw"
  /\ err \in { ErrMaxIterations, ErrStepTooSmall, ErrStepTooLarge, ErrInvalidTermination }

\* C17: after an exception raised from inside the loop, x and w hold the last
\* candidate built, which is the candidate of the current step, step holds
\* that trial's value (the initial step halved once per earlier rejection),
\* and fx holds the last evaluated energy, or its incoming value when no
\* energy was evaluated.
C17_ThrowLeavesLastTrial ==
  ThrewInsideLoop
    => /\ nBuilt = iter + 1
       /\ HoldsCandidateOfStep
       /\ step * (2 ^ iter) = step_in
       /\ fx = IF nEval = 0 THEN fx_init ELSE lastEnergyCall.e

\* C17 witness: an exception on the second trial, after one energy
\* evaluation, with x and w different from their pre-search values and fx
\* different from its incoming value.
C17_Witness ==
  /\ ThrewInsideLoop
  /\ iter = 1
  /\ nEval = 1
  /\ x # xp
  /\ w # wp
  /\ fx # fx_init

\* C18: on either rejection path the checks look at the step the rejected
\* trial was built with, in the order budget, step < minStep, step > maxStep:
\* the first that applies is the exception thrown, with the step left as it
\* is, and when none applies the step is halved.
C18_ChecksInFixedOrder ==
  [][ TrialRejected
        => IF iter >= param.maxLineSearch
             THEN pc' = "threw" /\ err' = ErrMaxIterations /\ step' = step
           ELSE IF step < param.minStep
             THEN pc' = "threw" /\ err' = ErrStepTooSmall /\ step' = step
           ELSE IF step > param.maxStep
             THEN pc' = "threw" /\ err' = ErrStepTooLarge /\ step' = step
           ELSE pc' = "loop" /\ err' = NoError /\ 2 * step' = step ]_vars

\* C18 witness: a trial rejected by the termination conditions whose step is
\* both below minStep and above maxStep, with budget left: the step-too-small
\* error is the one thrown.
C18_Witness ==
  /\ pc = "threw"
  /\ err = ErrStepTooSmall
  /\ validStep
  /\ nEval = nBuilt
  /\ iter < param.maxLineSearch
  /\ step < param.minStep
  /\ step > param.maxStep

\* C19: with a negative maxLineSearch a call that passes the descent check
\* returns without a candidate, a feasibility check, an energy evaluation or
\* an error, and with fx, x, w, step as passed in; with maxLineSearch >= 0 the
\* loop is never left through its condition, only by a break or a throw.
C19_NegativeBudgetReturnsUntouched ==
  /\ []((param.maxLineSearch < 0 /\ pc # "entry" /\ dg_init <= 0)
          => /\ pc \in { "loop", "returned" }
             /\ err = NoError
             /\ nBuilt = 0 /\ nChecked = 0 /\ nEval = 0
             /\ fx = fx_init /\ x = xp /\ w = wp /\ step = step_in)
  /\ [][ (param.maxLineSearch < 0 /\ pc = "loop") => pc' = "returned" ]_vars
  /\ [][ (param.maxLineSearch >= 0 /\ pc = "loop") => pc' = "build" ]_vars
  /\ [][ (param.maxLineSearch >= 0 /\ pc' = "returned") => pc = "policy" ]_vars

\* C19 witness: a call with maxLineSearch = -1 has returned with nothing built.
C19_Witness ==
  /\ param.maxLineSearch = -1
  /\ pc = "returned"
  /\ dg_init <= 0
  /\ nBuilt = 0
  /\ x = xp
  /\ step = step_in

====
